---- MODULE Spec2Model ----
(***************************************************************************)
(* Model of main.py of SnS-LED-Signatures: the overhead-camera robot       *)
(* tracker.  The module-level server setup (accept, configuration packet)  *)
(* and the main loop (capture, stop poll, LED detection, grouping,         *)
(* pattern matching, snapshot assembly, send / acknowledgment read, close  *)
(* and release) are modelled as one sequential process; the TCP peer is    *)
(* the environment.                                                        *)
(***************************************************************************)
EXTENDS Integers, Sequences, FiniteSets, TLC

(* ---------------------------- bounds ----------------------------------- *)
\* number of loop iterations explored
MaxFrames == 3
\* number of LED contours in one captured frame
MaxPoints == 2
\* the modelled image is one row of GridW pixel cells
GridW == 4
\* number of LED contours of the frame whose tracking is examined alone
MaxTrackPoints == 3

(* ---------------------- run parameters (main.py) ------------------------ *)
RUN_SERVER == TRUE
IS_RPI == FALSE
DISPLAY == TRUE
SAVE_FRAME_RATE == 0
HAS_COMPASS == FALSE
PACKET_SIZE == 1024

\* the identities resolved in every frame, in this order
bots_in_play == <<"X", "Y", "STAIR", "H", "L">>

\* Python's None, and a present value
None == [none |-> TRUE]
Some(v) == [none |-> FALSE, val |-> v]

\* the result of a computation that may raise
Ok(v) == [ok |-> TRUE, val |-> v]
Raise(e) == [ok |-> FALSE, exc |-> e]

(* ------------------------ pure helpers --------------------------------- *)
Abs(n) == IF n < 0 THEN -n ELSE n

SetMin(S) == CHOOSE m \in S : \A n \in S : m <= n

RECURSIVE SeqSum(_)
SeqSum(s) == IF s = <<>> THEN 0 ELSE Head(s) + SeqSum(Tail(s))

\* the pixel cells a contour centre (cX, cY) can fall in
Pixels == (0 .. GridW - 1) \X {0}

\* the lists of contour centres the contour detection can yield for a frame
RECURSIVE SeqsUpTo(_, _)
SeqsUpTo(S, n) ==
    IF n = 0 THEN {<<>>}
    ELSE LET shorter == SeqsUpTo(S, n - 1)
         IN  shorter \cup {Append(s, e) : s \in {t \in shorter : Len(t) = n - 1}, e \in S}

Contours == SeqsUpTo(Pixels, MaxPoints)

\* the same, for the frame whose tracking is examined alone
TrackContours == SeqsUpTo(Pixels, MaxTrackPoints)

(* ------------------ OverheadCamera (coordinate projector) --------------- *)
\* offsets given to the OverheadCamera constructor
midfield_offset == 0
sideline_offset == 0
x_offset == midfield_offset
y_offset == sideline_offset
FIELD_LENGTH == 5
FIELD_WIDTH == 3

\* tangent of the angular offset of a pixel d cells off the image centre,
\* in field units at the marker plane (tan a ~ a + a^3/3: not linear in d)
TanOffset(d) == IF d < 0 THEN -(Abs(d) + (Abs(d) * Abs(d) * Abs(d)) \div 3)
                ELSE d + (d * d * d) \div 3

\* cam.pixelsToCartesian(cX, cY), phi = 90: the ray through the pixel's
\* angular offset, rotated by phi, cut with the marker plane, plus offsets
pixelsToCartesian(cX, cY) ==
    LET tx == TanOffset(cX - GridW \div 2)
        ty == TanOffset(cY)
    IN  <<x_offset - ty, y_offset + tx, 0>>

(* ------------------------- botDetector ---------------------------------- *)
\* two points are near when their distance is at most radius
Near(p, q, radius) ==
    (p[1] - q[1]) * (p[1] - q[1]) + (p[2] - q[2]) * (p[2] - q[2]) <= radius * radius

\* the indices reachable from S by chains of near points
RECURSIVE Closure(_, _, _)
Closure(S, pts, radius) ==
    LET T == S \cup {j \in DOMAIN pts : \E i \in S : Near(pts[i], pts[j], radius)}
    IN  IF T = S THEN S ELSE Closure(T, pts, radius)

\* the points of pts at the indices C, in list order
RECURSIVE Pick(_, _)
Pick(C, pts) ==
    IF C = {} THEN <<>>
    ELSE LET i == SetMin(C) IN <<pts[i]>> \o Pick(C \ {i}, pts)

RECURSIVE GroupsFrom(_, _, _)
GroupsFrom(todo, pts, radius) ==
    IF todo = {} THEN <<>>
    ELSE LET C == Closure({SetMin(todo)}, pts, radius)
         IN  <<Pick(C, pts)>> \o GroupsFrom(todo \ C, pts, radius)

\* botDetector.groupNearbyPoints(points, radius): single-link grouping
groupNearbyPoints(points, radius) == GroupsFrom(DOMAIN points, points, radius)

\* botPatterns: the catalog of marker templates, relative marker offsets
botPatterns ==
    [X     |-> <<<<0, 0>>, <<1, 1>>>>,
     Y     |-> <<<<0, 0>>, <<0, 1>>, <<1, 2>>>>,
     STAIR |-> <<<<0, 0>>, <<1, 0>>>>,
     H     |-> <<<<0, 0>>>>,
     L     |-> <<<<0, 0>>, <<0, 1>>>>]

\* botPatterns.getPattern(name): a lookup miss raises
getPattern(name) ==
    IF name \in DOMAIN botPatterns THEN Ok(botPatterns[name]) ELSE Raise("UnknownIdentity")

\* sum of the squared pairwise distances of a point list
PairSpread(g) ==
    SeqSum([k \in 1 .. Len(g) * Len(g) |->
              LET p == g[((k - 1) \div Len(g)) + 1]
                  q == g[((k - 1) % Len(g)) + 1]
              IN  (p[1] - q[1]) * (p[1] - q[1]) + (p[2] - q[2]) * (p[2] - q[2])])

\* botDetector.detectShape(group, pattern): dissimilarity, lower is better,
\* translation invariant (marker count, then pairwise-distance spread)
detectShape(group, pattern) ==
    100 * Abs(Len(group) - Len(pattern)) + Abs(PairSpread(group) - PairSpread(pattern))

\* a number n/d in lowest terms (d > 0)
RECURSIVE Gcd(_, _)
Gcd(a, b) == IF b = 0 THEN a ELSE Gcd(b, a % b)

Rat(n, d) == LET g == Gcd(Abs(n), d) IN [num |-> n \div g, den |-> d \div g]

\* botDetector.groupCenter(group): arithmetic mean of the members, None for
\* an absent or empty group
groupCenter(group) ==
    IF group.none THEN None
    ELSE IF Len(group.val) = 0 THEN None
    ELSE LET g == group.val
             n == Len(g)
         IN  Some(<<Rat(SeqSum([k \in 1 .. n |-> g[k][1]]), n),
                    Rat(SeqSum([k \in 1 .. n |-> g[k][2]]), n)>>)

(* ------------------- per-frame tracking (main loop) --------------------- *)
\* a Python dict as its items in insertion order
DictKeys(d) == [i \in DOMAIN d |-> d[i].key]

DictHas(d, k) == \E i \in DOMAIN d : d[i].key = k

DictGet(d, k) == d[CHOOSE i \in DOMAIN d : d[i].key = k].val

\* faulty variant: an unresolved identity gets no entry
DictSetSkipNone(d, k, v) ==
    IF v.none THEN d
    ELSE IF DictHas(d, k)
    THEN [i \in DOMAIN d |-> IF d[i].key = k THEN [key |-> k, val |-> v] ELSE d[i]]
    ELSE Append(d, [key |-> k, val |-> v])

\* d[k] = v
DictSet(d, k, v) ==
    IF DictHas(d, k)
    THEN [i \in DOMAIN d |-> IF d[i].key = k THEN [key |-> k, val |-> v] ELSE d[i]]
    ELSE Append(d, [key |-> k, val |-> v])

\* faulty variant: the contour centres are kept in pixels
DetectLEDsRaw(centres) == centres

\* the LED list of a frame: every contour centre converted to field
\* coordinates, z dropped
DetectLEDs(centres) ==
    [i \in DOMAIN centres |->
        LET c == pixelsToCartesian(centres[i][1], centres[i][2]) IN <<c[1], c[2]>>]

\* math.inf as the initial best score
Inf == [inf |-> TRUE, val |-> 0]

\* faulty variant: the comparison is turned round
ScoreGreater(score, best) == best.inf \/ score > best.val

ScoreLess(score, best) == best.inf \/ score < best.val

\* the inner loop over the groups for one identity, from group i on
RECURSIVE MatchLoop(_, _, _, _, _)
MatchLoop(grps, i, bot_pattern, best_bot, best_score) ==
    IF i > Len(grps) THEN Ok(best_bot)
    ELSE IF Len(grps[i]) < 1
         THEN MatchLoop(grps, i + 1, bot_pattern, best_bot, best_score)
    ELSE LET pattern == getPattern(bot_pattern)
         IN  IF ~pattern.ok THEN Raise(pattern.exc)
             ELSE LET score == detectShape(grps[i], pattern.val)
                  IN  IF ScoreLess(score, best_score)
                      THEN MatchLoop(grps, i + 1, bot_pattern, Some(grps[i]),
                                     [inf |-> FALSE, val |-> score])
                      ELSE MatchLoop(grps, i + 1, bot_pattern, best_bot, best_score)

\* faulty variant: best_bot starts as the first group
bestMatchFromFirst(grps, bot_pattern) ==
    IF Len(grps) = 0 THEN Raise("IndexError")
    ELSE MatchLoop(grps, 1, bot_pattern, Some(grps[1]), Inf)

\* best_bot after the inner loop for one identity
bestMatch(grps, bot_pattern) == MatchLoop(grps, 1, bot_pattern, None, Inf)

\* faulty variant: field length and width are mixed up
InitialPositionsSwapped ==
    <<[key |-> "CAM",
       val |-> Some(<<Rat(x_offset + FIELD_WIDTH, 1), Rat(y_offset + FIELD_LENGTH, 1)>>)]>>

\* the camera-self entry the dict starts with
InitialPositions ==
    <<[key |-> "CAM",
       val |-> Some(<<Rat(x_offset + FIELD_LENGTH, 1), Rat(y_offset + FIELD_WIDTH, 1)>>)]>>

\* the list grps without its first occurrence of the group g
RECURSIVE WithoutGroup(_, _)
WithoutGroup(grps, g) ==
    IF grps = <<>> THEN <<>>
    ELSE IF Head(grps) = g THEN Tail(grps)
    ELSE <<Head(grps)>> \o WithoutGroup(Tail(grps), g)

\* faulty variant: a group matched to an identity is taken out of the list
\* the later identities are matched against
RECURSIVE AssembleFromExclusive(_, _, _)
AssembleFromExclusive(grps, b, positions) ==
    IF b > Len(bots_in_play) THEN Ok([positions |-> positions, groups |-> grps])
    ELSE LET best == bestMatch(grps, bots_in_play[b])
         IN  IF ~best.ok THEN Raise(best.exc)
             ELSE AssembleFromExclusive(
                      IF best.val.none THEN grps ELSE WithoutGroup(grps, best.val.val),
                      b + 1,
                      DictSet(positions, bots_in_play[b], groupCenter(best.val)))

\* the outer loop over bots_in_play, from identity b on: the dict and the
\* group list as the loop leaves them
RECURSIVE AssembleFrom(_, _, _)
AssembleFrom(grps, b, positions) ==
    IF b > Len(bots_in_play) THEN Ok([positions |-> positions, groups |-> grps])
    ELSE LET best == bestMatch(grps, bots_in_play[b])
         IN  IF ~best.ok THEN Raise(best.exc)
             ELSE AssembleFrom(grps, b + 1,
                               DictSet(positions, bots_in_play[b], groupCenter(best.val)))

\* bot_positions and groups of a frame whose groups are grps
AssemblePositions(grps) == AssembleFrom(grps, 1, InitialPositions)

\* the identities botPatterns.getPattern is called for in a frame: the call
\* sits in the inner loop, behind the test for a non-empty group
Lookups(grps) ==
    {bots_in_play[b] : b \in {n \in DOMAIN bots_in_play :
                                 \E i \in DOMAIN grps : Len(grps[i]) >= 1}}

\* the body of one iteration between the contour detection and the try
\* block: LEDs, groups, bot_positions of the contour centres c
TrackFrameOf(c) ==
    LET leds == DetectLEDs(c)
        grps == groupNearbyPoints(leds, 1)
        res == AssemblePositions(grps)
    IN  [LEDs |-> leds,
         groups |-> IF res.ok THEN res.val.groups ELSE grps,
         positions |-> IF res.ok THEN Ok(res.val.positions) ELSE res,
         lookups |-> Lookups(grps)]

\* the same for every list of contour centres a frame of the loop can have
Tracked == [c \in Contours |-> TrackFrameOf(c)]

\* json.dumps(bot_positions): None becomes null, a tuple an array
JsonValue(v) == IF v.none THEN [type |-> "null", items |-> <<>>]
                ELSE [type |-> "array", items |-> v.val]

json_dumps(d) == [i \in DOMAIN d |-> [key |-> d[i].key, val |-> JsonValue(d[i].val)]]

\* configDataPacket()
configDataPacket ==
    <<[key |-> "FPS", val |-> SAVE_FRAME_RATE], [key |-> "PACKET_SIZE", val |-> PACKET_SIZE]>>

(* --------------------------- the TCP socket ----------------------------- *)
\* what conn.send can do, by the state of the connection: data is accepted
\* while the peer has not reset the connection (also after its FIN, when
\* it is only buffered); after a reset the call raises
SendOutcomes(s) ==
    IF s = "reset" THEN {"BrokenPipeError", "ConnectionResetError"} ELSE {"ok"}

\* faulty variant: the read gives up on a silent peer
RecvWithTimeout(s, inb) ==
    IF inb > 0 THEN {"data"}
    ELSE IF s = "established" THEN {"eof"}
    ELSE IF s = "peer_fin" THEN {"eof"}
    ELSE {"ConnectionResetError", "eof"}

\* what conn.recv can do: return buffered data, block while the peer is
\* silent (no outcome), return b'' after the peer's FIN, raise or return
\* b'' after a reset
RecvOutcomes(s, inb) ==
    IF inb > 0 THEN {"data"}
    ELSE IF s = "established" THEN {}
    ELSE IF s = "peer_fin" THEN {"eof"}
    ELSE {"ConnectionResetError", "eof"}

\* the exceptions the try around send and recv catches
HandledExceptions == {"BrokenPipeError"}

\* the forms the peer-gone condition takes as an exception
PeerGoneErrors == {"BrokenPipeError", "ConnectionResetError"}

\* cv2.waitKey(1) & 0xFF: the stop key, or anything else
Keys == {"q", "none"}

\* faulty variant: the stop key is not honoured
StopIgnored(k) == FALSE

StopPressed(k) == k = "q"

(* ------------------------------- state ---------------------------------- *)
VARIABLES
    pc,             \* position of the program
    exc,            \* the exception that ended the program, "" if none
    connState,      \* Idle, Accepted, Closed
    camera,         \* open, released
    sock,           \* none, established, peer_fin, reset
    inbox,          \* acknowledgments received and not yet read
    peerPending,    \* snapshots delivered to the peer and not yet answered
    frameOk,        \* vid.read() returned a frame (not None)
    contours,       \* centres (cX, cY) of the LED contours of the frame
    LEDs,           \* field points of the frame
    groups,         \* groups of the frame
    bot_positions,  \* the snapshot dict
    data,           \* the last serialized snapshot
    lookedUp,       \* the identities getPattern was called for so far
    wire,           \* what the program did on conn, in order
    iter,           \* loop iterations started
    polls,          \* calls of cv2.waitKey
    key,            \* the key read by the last cv2.waitKey
    stopSeen,       \* the stop key was observed
    cycle           \* the send / recv of the current iteration

vars == <<pc, exc, connState, camera, sock, inbox, peerPending, frameOk, contours,
          LEDs, groups,
          bot_positions, data, lookedUp, wire, iter, polls, key, stopSeen, cycle>>

tracking == <<contours, LEDs, groups, bot_positions, data, lookedUp>>
counters == <<iter, polls, key, frameOk>>
peer == <<sock, inbox, peerPending>>

NoCycle == [send |-> "none", recv |-> "none", logged |-> FALSE,
            sockAtSend |-> "none", sockAtRecv |-> "none"]

Init ==
    /\ pc = "accept"
    /\ exc = ""
    /\ connState = "Idle"
    /\ camera = "open"
    /\ sock = "none"
    /\ inbox = 0
    /\ peerPending = 0
    /\ frameOk = FALSE
    /\ contours = <<>>
    /\ LEDs = <<>>
    /\ groups = <<>>
    /\ bot_positions = <<>>
    /\ data = <<>>
    /\ lookedUp = {}
    /\ wire = <<>>
    /\ iter = 0
    /\ polls = 0
    /\ key = "none"
    /\ stopSeen = FALSE
    /\ cycle = NoCycle

(* ------------------------- server setup --------------------------------- *)
\* server_socket.accept(): one blocking accept
Accept ==
    /\ pc = "accept"
    /\ RUN_SERVER
    /\ connState = "Idle"
    /\ connState' = "Accepted"
    /\ sock' = "established"
    /\ pc' = "config"
    /\ UNCHANGED <<exc, camera, inbox, peerPending, tracking, wire, counters, stopSeen, cycle>>

\* conn.send(configDataPacket().encode()), then main() is entered
SendConfig ==
    /\ pc = "config"
    /\ \E o \in SendOutcomes(sock) :
         IF o = "ok"
         THEN /\ wire' = Append(wire, "config")
              /\ pc' = "loop"
              /\ exc' = exc
         ELSE /\ wire' = wire
              /\ pc' = "raised"
              /\ exc' = o
    /\ UNCHANGED <<connState, camera, peer, tracking, counters, stopSeen, cycle>>

(* ------------------------------ main loop ------------------------------- *)
\* faulty variant: the acknowledgment read is left out
SkipAckRead == "loop"

\* where the program goes after a snapshot was sent: the acknowledgment read
AfterSnapshotSent == "recv"

\* faulty variant: the except clause ends the loop, and the connection is closed
CloseOnDisconnect == "close"

\* faulty variant: the acknowledgment read sits behind the try block and is
\* reached from the except clause too
ReadAfterFailedSend == "recv"

\* where the program goes from the except clause: the rest of the iteration
AfterHandled == "loop"

\* faulty variant: the configuration packet is sent again with every snapshot
ConfigWithEverySnapshot == <<"config", "snapshot">>

\* what a successful conn.send(data.encode()) puts on the connection
SnapshotEvents == <<"snapshot">>

\* the program ends with exception e escaping
Escape(e) ==
    /\ pc' = "raised"
    /\ exc' = e

\* the try block: json.dumps, conn.send, then on to conn.recv; the except
\* clause logs a handled exception and the loop goes on
Transmit(positions) ==
    /\ data' = json_dumps(positions)
    /\ \E o \in SendOutcomes(sock) :
         /\ cycle' = [NoCycle EXCEPT !.send = o, !.sockAtSend = sock,
                                     !.logged = (o \in HandledExceptions)]
         /\ IF o = "ok"
            THEN /\ wire' = wire \o SnapshotEvents
                 /\ peerPending' = IF sock = "established" THEN peerPending + 1
                                   ELSE peerPending
                 /\ pc' = AfterSnapshotSent
                 /\ exc' = exc
            ELSE IF o \in HandledExceptions
            THEN /\ pc' = AfterHandled
                 /\ UNCHANGED <<wire, peerPending, exc>>
            ELSE /\ Escape(o)
                 /\ UNCHANGED <<wire, peerPending>>

\* faulty variant: an identity without a match keeps the position it had in
\* the frame before
FramePositionsSticky(c) ==
    LET new == Tracked[c].positions
    IN  IF ~new.ok THEN new
        ELSE Ok([i \in DOMAIN new.val |->
                   IF new.val[i].val.none /\ DictHas(bot_positions, new.val[i].key)
                   THEN [key |-> new.val[i].key,
                         val |-> DictGet(bot_positions, new.val[i].key)]
                   ELSE new.val[i]])

\* bot_positions as the loop body builds it for the contour centres c
FramePositions(c) == Tracked[c].positions

\* one pass of the loop body down to the blocking acknowledgment read:
\* capture, stop poll, LED detection, grouping, matching, assembly, send
Frame ==
    /\ pc = "loop"
    /\ iter < MaxFrames
    /\ \E ok \in BOOLEAN, k \in Keys :
         /\ iter' = iter + 1
         /\ polls' = polls + 1
         /\ key' = k
         /\ frameOk' = ok
         /\ IF StopPressed(k)
            THEN /\ pc' = "close"
                 /\ stopSeen' = TRUE
                 /\ UNCHANGED <<exc, tracking, wire, peerPending, cycle>>
            ELSE IF ~ok
            THEN \* cv2.cvtColor(None, ...) raises
                 /\ Escape("cv2.error")
                 /\ UNCHANGED <<stopSeen, tracking, wire, peerPending, cycle>>
            ELSE \E c \in Contours :
                 LET positions == FramePositions(c)
                 IN  /\ contours' = c
                     /\ LEDs' = Tracked[c].LEDs
                     /\ groups' = Tracked[c].groups
                     /\ lookedUp' = lookedUp \cup Tracked[c].lookups
                     /\ stopSeen' = stopSeen
                     /\ IF ~positions.ok
                        THEN /\ Escape(positions.exc)
                             /\ UNCHANGED <<bot_positions, data, wire, peerPending, cycle>>
                        ELSE /\ bot_positions' = positions.val
                             /\ IF RUN_SERVER
                                THEN Transmit(positions.val)
                                ELSE /\ pc' = "loop"
                                     /\ UNCHANGED <<exc, data, wire, peerPending, cycle>>
    /\ UNCHANGED <<connState, camera, sock, inbox>>

\* conn.recv(PACKET_SIZE).decode(): the blocking acknowledgment read, then
\* the end of the iteration
Recv ==
    /\ pc = "recv"
    /\ \E o \in RecvOutcomes(sock, inbox) :
         /\ cycle' = [cycle EXCEPT !.recv = o, !.sockAtRecv = sock,
                                   !.logged = (o \in HandledExceptions)]
         /\ IF o \in {"data", "eof"}
            THEN /\ wire' = Append(wire, "recv")
                 /\ inbox' = 0
                 /\ pc' = "loop"
                 /\ exc' = exc
            ELSE IF o \in HandledExceptions
            THEN /\ pc' = AfterHandled
                 /\ UNCHANGED <<wire, inbox, exc>>
            ELSE /\ Escape(o)
                 /\ UNCHANGED <<wire, inbox>>
    /\ UNCHANGED <<connState, camera, sock, peerPending, tracking, counters, stopSeen>>

\* faulty variant: the connection is closed inside the loop, which goes on
CloseInLoop ==
    /\ pc = "close"
    /\ connState' = "Closed"
    /\ pc' = "loop"
    /\ UNCHANGED <<exc, camera, peer, tracking, wire, counters, stopSeen, cycle>>

\* after the loop: conn.close()
Close ==
    /\ pc = "close"
    /\ connState' = IF RUN_SERVER THEN "Closed" ELSE connState
    /\ pc' = "release"
    /\ UNCHANGED <<exc, camera, peer, tracking, wire, counters, stopSeen, cycle>>

\* cv2.destroyAllWindows(), vid.release(); main returns
Release ==
    /\ pc = "release"
    /\ camera' = "released"
    /\ pc' = "done"
    /\ UNCHANGED <<exc, connState, peer, tracking, wire, counters, stopSeen, cycle>>

(* ------------------------------ the peer -------------------------------- *)
\* the consumer answers a snapshot it received
PeerAck ==
    /\ connState = "Accepted"
    /\ sock = "established"
    /\ peerPending > 0
    /\ inbox' = inbox + 1
    /\ peerPending' = peerPending - 1
    /\ UNCHANGED <<pc, exc, connState, camera, sock, tracking, wire, counters, stopSeen, cycle>>

\* the consumer closes its end (FIN)
PeerClose ==
    /\ connState = "Accepted"
    /\ sock = "established"
    /\ sock' = "peer_fin"
    /\ UNCHANGED <<pc, exc, connState, camera, inbox, peerPending, tracking, wire, counters,
                   stopSeen, cycle>>

\* the connection is reset (RST): an abortive close, or the answer to data
\* sent after the consumer's FIN
PeerReset ==
    /\ connState = "Accepted"
    /\ sock \in {"established", "peer_fin"}
    /\ sock' = "reset"
    /\ inbox' = 0
    /\ UNCHANGED <<pc, exc, connState, camera, peerPending, tracking, wire, counters,
                   stopSeen, cycle>>

\* a step of the program itself
Program == Accept \/ SendConfig \/ Frame \/ Recv \/ Close \/ Release

Next ==
    \/ Accept
    \/ SendConfig
    \/ Frame
    \/ Recv
    \/ Close
    \/ Release
    \/ PeerAck
    \/ PeerClose
    \/ PeerReset

Spec == Init /\ [][Next]_vars

(* ------------------ the tracking of one frame, alone --------------------- *)
\* the first iteration after the contour detection, with up to
\* MaxTrackPoints contour centres
TrackInit ==
    /\ pc = "track"
    /\ exc = ""
    /\ connState = "Accepted"
    /\ camera = "open"
    /\ sock = "established"
    /\ inbox = 0
    /\ peerPending = 0
    /\ frameOk = TRUE
    /\ contours \in TrackContours
    /\ LEDs = <<>>
    /\ groups = <<>>
    /\ bot_positions = <<>>
    /\ data = <<>>
    /\ lookedUp = {}
    /\ wire = <<"config">>
    /\ iter = 1
    /\ polls = 1
    /\ key = "none"
    /\ stopSeen = FALSE
    /\ cycle = NoCycle

\* LED detection, grouping, matching and assembly for the contours at hand
TrackFrame ==
    /\ pc = "track"
    /\ LET t == TrackFrameOf(contours)
       IN  /\ LEDs' = t.LEDs
           /\ groups' = t.groups
           /\ lookedUp' = lookedUp \cup t.lookups
           /\ IF t.positions.ok
              THEN /\ bot_positions' = t.positions.val
                   /\ pc' = "tracked"
                   /\ exc' = exc
              ELSE /\ bot_positions' = bot_positions
                   /\ Escape(t.positions.exc)
    /\ UNCHANGED <<connState, camera, peer, contours, data, wire, counters, stopSeen, cycle>>

TrackNext == TrackFrame

TrackSpec == TrackInit /\ [][TrackNext]_vars

(* ------------------------------ properties ------------------------------ *)
\* C1: at most one frame is in flight: between any two snapshots sent on
\* the connection there is a completed read on it (every snapshot on the
\* wire that is not the last event is followed directly by a read)
C1_OneFrameInFlight ==
    \A i \in 1 .. Len(wire) - 1 : wire[i] = "snapshot" => wire[i + 1] = "recv"

C1_Witness ==
    \E i, j \in DOMAIN wire : i < j /\ wire[i] = "snapshot" /\ wire[j] = "snapshot"

\* C2: one configuration message per session: it is the first thing on the
\* connection, it is there once main runs, nothing is read in answer to it
\* and it is never sent again
C2_ConfigOnce ==
    /\ Cardinality({i \in DOMAIN wire : wire[i] = "config"}) <= 1
    /\ wire # <<>> => wire[1] = "config"
    /\ pc = "config" => wire = <<>>
    /\ pc \in {"loop", "recv", "close", "release", "done"} => wire # <<>>
    /\ iter > 0 => wire # <<>>
    /\ Len(wire) >= 2 => wire[2] = "snapshot"

C2_Witness == Len(wire) >= 5 /\ wire[1] = "config"

\* C3: a send or read failing because the peer is gone never ends the
\* session: no peer-gone error escapes the main loop
C3_PeerGoneNeverTerminates ==
    ~(pc = "raised" /\ iter > 0 /\ exc \in PeerGoneErrors)

\* C4: a frame whose send / read cycle met a gone peer and exchanged no
\* data with it has logged the disconnect in that frame
C4_PeerGoneLogged ==
    LET gone == {"peer_fin", "reset"}
        ended == pc = "loop" \/ (pc = "raised" /\ exc \in PeerGoneErrors)
    IN  (/\ ended
         /\ cycle.send # "none"
         /\ cycle.sockAtSend \in gone \/ cycle.sockAtRecv \in gone
         /\ cycle.recv # "data")
        => cycle.logged

\* C5: the connection is closed only after the stop key was observed, and
\* once it is closed nothing is sent or read on it
C5_CloseOnlyOnStop ==
    /\ [](connState = "Closed" => stopSeen /\ key = "q" /\ pc \in {"release", "done"})
    /\ [][connState # "Closed" /\ connState' = "Closed" => pc = "close" /\ stopSeen]_vars
    /\ [][connState = "Closed" => wire' = wire /\ cycle' = cycle /\ data' = data]_vars

C5_Witness == connState = "Closed" /\ stopSeen /\ Len(wire) >= 3

\* C6: in every terminal state of main the connection is closed and the
\* camera released
C6_ReleasedOnEveryExit ==
    (iter > 0 /\ pc \in {"done", "raised"}) => (connState = "Closed" /\ camera = "released")

\* C7: while the consumer has not answered the snapshot and the connection
\* stays open, the program does not move: no frame, no send, no stop poll,
\* no termination
C7_AckStall ==
    [][(pc = "recv" /\ inbox = 0 /\ sock = "established")
        => (/\ pc' = "recv"
            /\ iter' = iter
            /\ polls' = polls
            /\ wire' = wire
            /\ stopSeen' = stopSeen
            /\ connState' = connState
            /\ camera' = camera)]_vars

C7_Witness == pc = "recv" /\ inbox = 0 /\ sock = "established" /\ iter = MaxFrames

\* C8: the stop key is polled once per iteration; an iteration that
\* observes it assembles and sends nothing and leaves the loop, and what
\* follows is the close of the connection and the release of the camera
C8_StopPoll ==
    /\ [](polls = iter)
    /\ [][polls' # polls /\ key' = "q"
          => (/\ pc' = "close"
              /\ stopSeen'
              /\ UNCHANGED <<tracking, wire, cycle>>)]_vars
    /\ [][pc = "close" /\ pc' # pc => pc' = "release" /\ connState' = "Closed"]_vars
    /\ [][pc = "release" /\ pc' # pc => pc' = "done" /\ camera' = "released"]_vars

C8_Witness == pc = "done" /\ stopSeen /\ iter >= 2 /\ camera = "released"

\* C9: the connection state only moves Idle -> Accepted -> Closed, the
\* accept precedes the first frame, and every send and read happens while
\* the state is Accepted
C9_ConnForward ==
    /\ [](iter > 0 => connState # "Idle")
    /\ [][connState' # connState
            => (\/ connState = "Idle" /\ connState' = "Accepted"
                \/ connState = "Accepted" /\ connState' = "Closed")]_vars
    /\ [][(wire' # wire \/ cycle' # cycle)
            => (connState = "Accepted" /\ connState' = "Accepted")]_vars

C9_Witness == connState = "Closed" /\ pc = "done" /\ Len(wire) >= 4

\* the identities of bots_in_play
Bots == {bots_in_play[i] : i \in DOMAIN bots_in_play}

\* C10: assembly never raises, whatever the groups; a frame with no points
\* gives a snapshot in which every identity in play is unresolved
C10_ZeroPoints ==
    /\ exc \in {"", "cv2.error"} \cup PeerGoneErrors
    /\ bot_positions # <<>> =>
         /\ \A b \in Bots : DictHas(bot_positions, b)
         /\ contours = <<>> => \A b \in Bots : DictGet(bot_positions, b).none

C10_Witness ==
    /\ pc = "recv"
    /\ contours = <<>>
    /\ bot_positions # <<>>
    /\ \A b \in Bots : DictGet(bot_positions, b).none

\* C11: for every identity the group selected from the frame's groups has
\* the least dissimilarity score of all of them, its centre is what is
\* published, and nothing is selected when there are no groups
C11_MinScoreSelected ==
    \A b \in Bots :
        LET r == bestMatch(groups, b)
        IN  /\ r.ok
            /\ groups = <<>> => r.val.none
            /\ groups # <<>> =>
                 /\ ~r.val.none
                 /\ \E i \in DOMAIN groups : groups[i] = r.val.val
                 /\ \A i \in DOMAIN groups :
                      detectShape(r.val.val, botPatterns[b])
                        <= detectShape(groups[i], botPatterns[b])
            /\ pc = "tracked" => DictGet(bot_positions, b) = groupCenter(r.val)

C11_Witness ==
    /\ pc = "tracked"
    /\ Len(groups) >= 2
    /\ \E b \in Bots : bestMatch(groups, b).val.val # groups[1]
    /\ \E b \in Bots : bestMatch(groups, b).val.val = groups[1]

\* C12: the identities are resolved in the order of bots_in_play, each
\* against the full group list of the frame: the matching leaves the list
\* as the grouping made it, and the position of an identity is the centre
\* of its own best match over that full list, whatever the other identities
\* were matched to
C12_IndependentMatching ==
    pc = "tracked" =>
        /\ groups = groupNearbyPoints(LEDs, 1)
        /\ DictKeys(bot_positions) = <<"CAM">> \o bots_in_play
        /\ \A b \in Bots :
             DictGet(bot_positions, b)
               = groupCenter(bestMatch(groupNearbyPoints(LEDs, 1), b).val)

\* two identities share one group although another group is there
C12_Witness ==
    /\ pc = "tracked"
    /\ Len(groups) >= 2
    /\ \E b1, b2 \in Bots :
         /\ b1 # b2
         /\ ~bestMatch(groups, b1).val.none
         /\ bestMatch(groups, b1).val = bestMatch(groups, b2).val
         /\ DictGet(bot_positions, b1) = DictGet(bot_positions, b2)

\* C13: every serialized snapshot has one entry for the camera and one for
\* each identity in play, and no other key
C13_PacketKeys ==
    /\ data # <<>> => DictKeys(data) = <<"CAM">> \o bots_in_play
    /\ (\E i \in DOMAIN wire : wire[i] = "snapshot") => data # <<>>
    /\ pc = "recv" => data = json_dumps(bot_positions)

C13_Witness ==
    /\ pc = "recv"
    /\ wire[Len(wire)] = "snapshot"
    /\ Len(groups) >= 2
    /\ \E i \in DOMAIN data : data[i].key \in Bots /\ data[i].val.type = "array"

\* the projection of a point with fractional pixel coordinates: between two
\* pixel cells the tangent is interpolated
TanOffsetAt(r, centre) ==
    LET n == r.num - centre * r.den
        lo == n \div r.den
    IN  Rat(TanOffset(lo) * r.den + (n - lo * r.den) * (TanOffset(lo + 1) - TanOffset(lo)),
            r.den)

ProjectCentre(ctr) ==
    LET tx == TanOffsetAt(ctr[1], GridW \div 2)
        ty == TanOffsetAt(ctr[2], 0)
    IN  <<Rat(x_offset * ty.den - ty.num, ty.den), Rat(y_offset * tx.den + tx.num, tx.den)>>

C15_NoCarriedState ==
    /\ [](bot_positions # <<>> =>
            /\ LEDs = Tracked[contours].LEDs
            /\ groups = Tracked[contours].groups
            /\ bot_positions = Tracked[contours].positions.val)
    /\ [][(iter' # iter /\ key' # "q" /\ frameOk' /\ bot_positions # <<>>
            /\ contours' = contours)
           => bot_positions' = bot_positions /\ data' = json_dumps(bot_positions)]_vars

\* a frame with LEDs was tracked after an earlier frame, and its send failed
C15_Witness ==
    /\ iter >= 2
    /\ pc = "loop"
    /\ cycle.send = "BrokenPipeError"
    /\ Len(contours) = MaxPoints
    /\ \E b \in Bots : ~DictGet(bot_positions, b).none

\* C16: the camera-self entry of every snapshot is
\* (x_offset + FIELD_LENGTH, y_offset + FIELD_WIDTH), the same from frame to
\* frame whatever the points, groups and matches
C16_CameraEntryFixed ==
    /\ [](bot_positions # <<>> =>
            /\ bot_positions[1].key = "CAM"
            /\ DictGet(bot_positions, "CAM").val[1].num = (x_offset + FIELD_LENGTH)
            /\ DictGet(bot_positions, "CAM").val[2].num = (y_offset + FIELD_WIDTH)
            /\ DictGet(bot_positions, "CAM").val[1].den = 1
            /\ DictGet(bot_positions, "CAM").val[2].den = 1)
    /\ [](data # <<>> => DictGet(data, "CAM").type = "array")
    /\ [][(bot_positions # <<>> /\ bot_positions' # bot_positions)
            => DictGet(bot_positions', "CAM") = DictGet(bot_positions, "CAM")]_vars
    /\ [][(data # <<>> /\ data' # data)
            => DictGet(data', "CAM") = DictGet(data, "CAM")]_vars

\* a later snapshot, of a frame with LEDs
C16_Witness ==
    /\ iter >= 2
    /\ pc = "recv"
    /\ Len(groups) >= 1
    /\ Len(wire) >= 4
    /\ DictGet(data, "CAM").items = DictGet(bot_positions, "CAM").val

\* C17: the catalog lookup of every identity in play is made before the
\* first frame is processed
C17_LookupBeforeFirstFrame ==
    iter > 0 => lookedUp = Bots

\* C18: the acknowledgment read of a frame is attempted only after that
\* frame's send succeeded; a send that raised the handled error is logged,
\* its read is skipped, and the next thing done on the connection is the
\* send of a later frame
C18_AckOnlyAfterSend ==
    /\ [](cycle.recv # "none" => cycle.send = "ok")
    /\ [](pc = "recv" => cycle.send = "ok" /\ cycle.recv = "none")
    /\ [](cycle.send \in HandledExceptions =>
            cycle.recv = "none" /\ cycle.logged /\ pc # "recv")
    /\ [][(cycle.send \in HandledExceptions /\ cycle' # cycle)
            => (cycle'.send # "none" /\ cycle'.recv = "none" /\ iter' = iter + 1)]_vars
    /\ [][(cycle.send \in HandledExceptions /\ wire' # wire)
            => wire' = Append(wire, "snapshot")]_vars

\* after a frame that was sent and answered, the send of a later frame
\* raised the handled error and the loop is back at its head
C18_Witness ==
    /\ iter >= 2
    /\ pc = "loop"
    /\ cycle.send = "BrokenPipeError"
    /\ cycle.recv = "none"
    /\ cycle.logged
    /\ wire[Len(wire)] = "recv"

====
